---- MODULE Spec2Model ----
(***************************************************************************)
(* Portrait gating and labelling of the OCR tick (src/ocr/reader.py) with  *)
(* the portrait template cache (src/services/portraits.py).                *)
(*                                                                         *)
(* Strings are sequences of one-character strings.  Python's None and ""   *)
(* are both the empty sequence: every test the code makes on a name or a   *)
(* key (`if name:`, `if selected:`, `if not safe:`) treats them alike.     *)
(* Scores are in hundredths, seconds are whole numbers.                    *)
(***************************************************************************)
EXTENDS Integers, Sequences, FiniteSets, TLC

\* ---------------------------------------------------------------- bounds
MaxCount == 2
MaxClock == 120

\* ------------------------------------------------------ program constants
PORTRAIT_MATCH_THRESHOLD == 70
PORTRAIT_REQUIRE_HITS == 2
PORTRAIT_REQUIRE_MISSES == 2
PROMPT_COOLDOWN_SEC == 15
PromptTimeout == 20
\* config.get("text_match_confidence", 0.7)
TextMatchConfidence == 70

\* time.time() at start-up: seconds since the epoch, far beyond the cooldown
EpochStart == 100

None == << >>

\* ------------------------------------------------------------- characters
SpaceLike == {" ", "\t"}
\* U+200B and U+FEFF, one token each
ZeroWidth == {"ZWSP", "BOM"}
Forbidden == {"\\", "/", ":", "*", "?", "\"", "<", ">", "|"}

UpperToLower ==
  [c \in {"T", "E", "S", "C", "D", "W"} |->
     CASE c = "T" -> "t" [] c = "E" -> "e" [] c = "S" -> "s"
       [] c = "C" -> "c" [] c = "D" -> "d" [] c = "W" -> "w"]

Lower(s) ==
  [i \in 1..Len(s) |-> IF s[i] \in DOMAIN UpperToLower THEN UpperToLower[s[i]] ELSE s[i]]

Contains(s, sub) ==
  \E i \in 1..(Len(s) - Len(sub) + 1) : SubSeq(s, i, i + Len(sub) - 1) = sub

RECURSIVE LStrip(_)
LStrip(s) ==
  IF s # << >> /\ Head(s) \in SpaceLike THEN LStrip(Tail(s)) ELSE s

RECURSIVE RStrip(_)
RStrip(s) ==
  IF s # << >> /\ s[Len(s)] \in SpaceLike THEN RStrip(SubSeq(s, 1, Len(s) - 1)) ELSE s

Strip(s) == LStrip(RStrip(s))

RECURSIVE Without(_, _)
Without(s, chars) ==
  IF s = << >> THEN << >>
  ELSE IF Head(s) \in chars THEN Without(Tail(s), chars)
       ELSE <<Head(s)>> \o Without(Tail(s), chars)

\* index of the first run of min_run or more space-like characters, 0 if none
GapStart(s, min_run) ==
  LET starts == {i \in 1..(Len(s) - min_run + 1) :
                   \A j \in i..(i + min_run - 1) : s[j] \in SpaceLike}
  IN IF starts = {} THEN 0 ELSE CHOOSE i \in starts : \A k \in starts : i <= k

\* the blanks before the gap are kept
trim_after_big_gap_NoStrip(s, min_run) ==
  IF s = << >> THEN s
  ELSE LET t == Without(s, ZeroWidth)
           g == GapStart(t, min_run)
       IN IF g = 0 THEN t ELSE SubSeq(t, 1, g - 1)

trim_after_big_gap(s, min_run) ==
  IF s = << >> THEN s
  ELSE LET t == Without(s, ZeroWidth)
           g == GapStart(t, min_run)
       IN RStrip(IF g = 0 THEN t ELSE SubSeq(t, 1, g - 1))

\* ------------------------------------------------------------ OCR output
HdrTraineeEvent == <<"T", "r", "a", "i", "n", "e", "e", " ", "E", "v", "e", "n", "t">>
HdrTrainee == <<"T", "r", "a", "i", "n", "e", "e">>
HdrSupport == <<"S", "u", "p", "p", "o", "r", "t", " ", "C", "a", "r", "d">>
HdrOther == <<"S", "k", "i", "l", "l", "s">>
Headers == {HdrTraineeEvent, HdrTrainee, HdrSupport, HdrOther}

LineDance == <<"D", "a", "n", "c", "e">>
LineDanceNoise == <<"D", "a", "n", "c", "e", " ", " ", " ", " ", "x">>
LineWalk == <<"W", "a", "l", "k">>
EventLines == {LineDance, LineDanceNoise, LineWalk}

\* the non-empty lines of one OCR read (reader.py:141-146)
OcrLines ==
  {<< >>} \cup {<<h>> : h \in Headers}
          \cup {<<h, e>> : h \in Headers, e \in EventLines}

StrTrainee == <<"t", "r", "a", "i", "n", "e", "e">>
StrTraineeEvent == <<"t", "r", "a", "i", "n", "e", "e", " ", "e", "v", "e", "n", "t">>
StrSupport == <<"s", "u", "p", "p", "o", "r", "t">>
TraineeKeyPrefix == <<"t", "r", "a", "i", "n", "e", "e", "|">>

Category(lines) ==
  LET category_line == Lower(lines[1])
  IN IF Contains(category_line, StrTrainee) THEN "trainee"
     ELSE IF Contains(category_line, StrSupport) THEN "support"
     ELSE "unknown"

\* every trainee header counts
is_trainee_event_line_AnyTrainee(lines) == Contains(Lower(lines[1]), StrTrainee)

is_trainee_event_line(lines) == Contains(Lower(lines[1]), StrTraineeEvent)

EventKey(event_line) == TraineeKeyPrefix \o event_line

\* the reads with two lines or more, by the category of the header
TraineeReads == {lines \in OcrLines : Len(lines) >= 2 /\ Category(lines) = "trainee"}
SupportReads == {lines \in OcrLines : Len(lines) >= 2 /\ Category(lines) = "support"}
UnknownReads == {lines \in OcrLines : Len(lines) >= 2 /\ Category(lines) = "unknown"}
ShortReads == {lines \in OcrLines : Len(lines) < 2}

\* reader.py:156-170: what the identification block takes from a trainee
\* read: the event key of the trimmed event line, the header, and whether it
\* says "Trainee Event"
TraineeInputs ==
  {[event_key |-> EventKey(trim_after_big_gap(lines[2], 4)),
    header |-> lines[1],
    te |-> is_trainee_event_line(lines)] : lines \in TraineeReads}

\* ---------------------------------------------------------------- names
Crops == {"c1", "c2"}
ScoreLevels == {50, 70, 90}

NameA == <<"A">>
NameAA == <<"A", "A">>

\* what the user can leave in the picker's combo box when the dialog closes
PickerTexts ==
  { << >>, NameA, <<" ", "A">>, NameAA, <<"?">>, <<"A", "?">>, <<"?", " ", "A">> }

\* CharacterPicker.selected_name: the combo box text, stripped
selected_name(text) == Strip(text)

\* what prompt_character_from_worker can return: a typed or chosen name, or
\* nothing (cancel, timeout, duplicate request, empty text)
PromptResults == {selected_name(t) : t \in PickerTexts}

\* ------------------------------------------------------- template cache
Gray(img) == <<"gray", img>>

\* portrait files present at start-up: stem -> image
DiskOptions ==
  { [n \in {} |-> "c1"],
    [n \in {NameA, NameAA} |-> IF n = NameA THEN "c1" ELSE "c2"] }

Keys(templates) == {templates[i].name : i \in 1..Len(templates)}

\* the caches load_portraits can build: os.listdir gives the files in any order
LoadOrders(files) ==
  LET n == Cardinality(DOMAIN files)
      orders == {o \in [1..n -> DOMAIN files] : \A i, j \in 1..n : o[i] = o[j] => i = j}
  IN {[i \in 1..n |-> [name |-> o[i], img |-> Gray(files[o[i]])]] : o \in orders}

add_template(templates, name, pil_img) ==
  IF name \in Keys(templates)
  THEN [i \in 1..Len(templates) |->
          IF templates[i].name = name THEN [name |-> name, img |-> Gray(pil_img)]
          ELSE templates[i]]
  ELSE Append(templates, [name |-> name, img |-> Gray(pil_img)])

RECURSIVE BestTemplate(_, _, _, _)
BestTemplate(scores, i, best_index, best_score) ==
  IF i > Len(scores) THEN [index |-> best_index, score |-> best_score]
  ELSE IF scores[i] > best_score
       THEN BestTemplate(scores, i + 1, i, scores[i])
       ELSE BestTemplate(scores, i + 1, best_index, best_score)

\* a best score equal to the threshold is refused
detect_from_roi_Strict(templates, scores, min_score) ==
  IF templates = << >> THEN [name |-> None, score |-> 0, index |-> 0]
  ELSE LET best == BestTemplate(scores, 1, 0, -100)
           best_name == IF best.index = 0 THEN None ELSE templates[best.index].name
       IN IF best.score > min_score
          THEN [name |-> best_name, score |-> best.score, index |-> best.index]
          ELSE [name |-> None, score |-> best.score, index |-> 0]

\* detect_from_roi on a cache snapshot; scores[i] is the maximum of
\* cv2.matchTemplate for the i-th template in the cache's order
detect_from_roi(templates, scores, min_score) ==
  IF templates = << >> THEN [name |-> None, score |-> 0, index |-> 0]
  ELSE LET best == BestTemplate(scores, 1, 0, -100)
           best_name == IF best.index = 0 THEN None ELSE templates[best.index].name
       IN IF best.score >= min_score
          THEN [name |-> best_name, score |-> best.score, index |-> best.index]
          ELSE [name |-> None, score |-> best.score, index |-> 0]

\* the cache detect_from_roi works on: reloaded from disk when it is empty
Reloads(templates, files) == IF templates = << >> THEN LoadOrders(files) ELSE {templates}

AfterReload(templates, loaded) == IF templates = << >> THEN loaded ELSE templates

Sanitize(name) == Strip(Without(Strip(name), Forbidden))

\* ------------------------------------------------------------ gate rules
\* a hit for another name goes on counting
HitCount_NoRestart(candidate, name, hits) == hits + 1

\* reader.py:174-178
HitCount(candidate, name, hits) == IF candidate = name THEN hits + 1 ELSE 1

\* the first hit already confirms
Confirmed_OneHit(hits) == hits >= 1

\* reader.py:182
Confirmed(hits) == hits >= PORTRAIT_REQUIRE_HITS

\* a miss on another event key goes on counting
MissCount_NoRestart(event_key, key, misses) == misses + 1

\* reader.py:192-196
MissCount(event_key, key, misses) == IF event_key # key THEN 1 ELSE misses + 1

\* the cooldown ends one comparison early
ShouldPrompt_AtCooldown(misses, now, last) ==
  misses >= PORTRAIT_REQUIRE_MISSES /\ now - last >= PROMPT_COOLDOWN_SEC

\* reader.py:200
ShouldPrompt(misses, now, last) ==
  misses >= PORTRAIT_REQUIRE_MISSES /\ now - last > PROMPT_COOLDOWN_SEC

\* the streaks are reset whatever the prompt returned
ResetsAfterPrompt_Always(selected, raised) == ~raised

\* reader.py:207-213: the resets are inside `if selected:`, after save_portrait
ResetsAfterPrompt(selected, raised) == selected # None /\ ~raised

\* ----------------------------------------------------------------- state
VARIABLES
  _current_candidate,   \* reader.py module state
  _candidate_hits,
  _consecutive_misses,
  _last_key,
  _last_prompt_time,
  portrait_templates,   \* portraits.py cache: sequence of [name, img] in dict order
  disk,                 \* assets/portraits: stem -> image
  clock,                \* time.time()
  pc,                   \* "idle" between ticks, "waiting" inside prompt_character_from_worker
  tick,                 \* what the last tick of read_once did
  lastId, prevId,       \* outcomes of the last two ticks that ran the identifier
  lastReq, prevReq      \* clock readings of the last two label requests, -1 if none

gate == <<_current_candidate, _candidate_hits, _consecutive_misses, _last_key,
          _last_prompt_time>>
store == <<portrait_templates, disk>>
hist == <<lastId, prevId, lastReq, prevReq>>

\* the worker loop and the picker dialog (main.py continuous_scan,
\* ui/character_picker.py)
VARIABLES
  stop_event,           \* threading.Event of main(): set or not
  main_alive,           \* the Qt event loop of the main thread is running
  wpc,                  \* the worker thread's position in continuous_scan / read_once
  wreq,                 \* the request the worker's current prompt call emitted, 0 if none
  wsel,                 \* what the worker's last prompt call returned
  expired,              \* the timeout of the current done.wait has elapsed
  failure,              \* where the last tick raised: "none", "scan", "ident", "save", "match"
  queue,                \* requests posted to the main thread and not yet delivered
  reqs,                 \* payloads by request id: [ev, has, name, st, returned, ret]
  _active_dialog,       \* character_picker._active_dialog: 0 for None, or the dialog's request id
  stack                 \* dialogs inside exec_(), innermost last

loop == <<stop_event, main_alive, wpc, wreq, wsel, expired, failure, queue, reqs,
          _active_dialog, stack>>

\* the threads that use the template cache (services/portraits.py)
VARIABLES
  portrait_lock,        \* threading.Lock: "free" or the thread that holds it
  tpc,                  \* each thread's position in load_portraits, _add_template, detect_from_roi
  tl,                   \* each thread's locals
  committed             \* the cache as the last finished write left it

cache == <<portrait_lock, tpc, tl, committed>>

\* find_best_match and the catalog (core/events.py)
VARIABLES
  m_call,               \* the last call of find_best_match: its arguments and what it returned
  _events_by_char_cache,\* events.py:25, for the one key the program uses
  folder,               \* the files of the events folder
  first_load            \* by category, what the first call of load_events returned

catalog == <<m_call, _events_by_char_cache, folder, first_load>>

\* one run of read_once from the OCR text to the signals (ocr/reader.py)
VARIABLES
  scan,                 \* what the tick is given: the OCR lines, the confirmed character, parsed_skills
  emitted               \* what the tick computed and emitted, << >> before it ran

reader == <<gate, clock, pc, tick, hist>>
side == <<cache, catalog, scan, emitted>>
vars == <<reader, store, loop, cache, catalog, scan, emitted>>

\* kind: "none" (no tick yet), "few", "unknown", "support", "trainee"
\* ident: "none", "hit", "miss", "error"; name: what detect_from_roi returned
\* event_key, char_img: the tick's locals, kept where the gate uses them
\* prompted: a label request was emitted; selected: what the prompt returned
\* saved: "no", "stored", "rejected" (save_portrait returned None), "failed" (it raised)
\* detected_char, called: find_best_match was called with this character
\* header: on a miss, the first OCR line
\* signals: what the tick emitted before the matching stage (the signals of a
\* tick that reaches find_best_match are those of read_once_output below)
NoTick ==
  [kind |-> "none", event_key |-> << >>, char_img |-> "c1",
   ident |-> "none", name |-> None, prompted |-> FALSE,
   selected |-> None, saved |-> "no", detected_char |-> None, called |-> FALSE,
   signals |-> << >>, header |-> << >>]

NoId == [res |-> "none", name |-> None, key |-> << >>]

\* reader.py:57-62 and the first tick still to come
ReaderStart ==
  /\ _current_candidate = None
  /\ _candidate_hits = 0
  /\ _consecutive_misses = 0
  /\ _last_key = << >>
  /\ _last_prompt_time = 0
  /\ clock = EpochStart
  /\ pc = "idle"
  /\ tick = NoTick
  /\ lastId = NoId /\ prevId = NoId
  /\ lastReq = -1 /\ prevReq = -1

\* main.py:776-786 and character_picker.py:88: no stop, no request, no dialog
LoopStart ==
  /\ stop_event = FALSE
  /\ main_alive = TRUE
  /\ wpc = "test"
  /\ wreq = 0
  /\ wsel = None
  /\ expired = FALSE
  /\ failure = "none"
  /\ queue = << >>
  /\ reqs = << >>
  /\ _active_dialog = 0
  /\ stack = << >>

\* portraits.py:32-33: no thread is inside the cache's functions
CacheStart ==
  /\ portrait_lock = "free"
  /\ tpc = [t \in {"worker", "ui"} |-> "idle"]
  /\ tl = [t \in {"worker", "ui"} |-> << >>]
  /\ committed = << >>

\* no call of find_best_match yet, nothing cached, no file in the folder
CatalogStart ==
  /\ m_call = << >>
  /\ _events_by_char_cache = << >>
  /\ folder = << >>
  /\ first_load = << >>

Init ==
  /\ ReaderStart
  /\ portrait_templates = << >>
  /\ disk \in DiskOptions
  /\ LoopStart
  /\ CacheStart
  /\ CatalogStart
  /\ scan = << >> /\ emitted = << >>

\* --------------------------------------------------------------- actions
\* time passing between two ticks: continuous_scan's sleep and the ticks' own work
Elapse ==
  /\ pc = "idle"
  /\ \E d \in {PROMPT_COOLDOWN_SEC, PROMPT_COOLDOWN_SEC + 1} :
       /\ clock + d <= MaxClock
       /\ clock' = clock + d
  /\ UNCHANGED <<loop, side, gate, store, pc, tick, hist>>

\* a read with too few lines resets the gate, as a header of another kind does
TickFewLines_ResetsGate ==
  /\ pc = "idle"
  /\ \E lines \in ShortReads :
       /\ tick' = [NoTick EXCEPT !.kind = "few", !.signals = <<"hide_all">>]
  /\ _current_candidate' = None
  /\ _candidate_hits' = 0
  /\ _consecutive_misses' = 0
  /\ _last_key' = << >>
  /\ UNCHANGED <<loop, side, _last_prompt_time, store, clock, pc, hist>>

\* reader.py:150-152: fewer than two non-empty lines
TickFewLines ==
  /\ pc = "idle"
  /\ \E lines \in ShortReads :
       /\ tick' = [NoTick EXCEPT !.kind = "few", !.signals = <<"hide_all">>]
  /\ UNCHANGED <<loop, side, gate, store, clock, pc, hist>>

\* reader.py:226-228: the header names neither category
TickUnknown ==
  /\ pc = "idle"
  /\ \E lines \in UnknownReads :
       /\ tick' = [NoTick EXCEPT !.kind = "unknown", !.signals = <<"hide_all">>]
  /\ UNCHANGED <<loop, side, gate, store, clock, pc, hist>>

\* the hit counter is left as it is
reset_portrait_gating_KeepsHits ==
  /\ _current_candidate' = None
  /\ _candidate_hits' = _candidate_hits
  /\ _consecutive_misses' = 0
  /\ _last_key' = << >>

\* reader.py:73-86
reset_portrait_gating ==
  /\ _current_candidate' = None
  /\ _candidate_hits' = 0
  /\ _consecutive_misses' = 0
  /\ _last_key' = << >>

\* the reset of the gate clears the prompt time too
TickSupport_ClearsPromptTime ==
  /\ pc = "idle"
  /\ \E lines \in SupportReads :
       /\ tick' = [NoTick EXCEPT !.kind = "support", !.called = TRUE]
  /\ reset_portrait_gating
  /\ _last_prompt_time' = 0
  /\ UNCHANGED <<loop, side, store, clock, pc, hist>>

\* reader.py:223-225, then the event matching of 236-241 without a character
TickSupport ==
  /\ pc = "idle"
  /\ \E lines \in SupportReads :
       /\ tick' = [NoTick EXCEPT !.kind = "support", !.called = TRUE]
  /\ reset_portrait_gating
  /\ UNCHANGED <<loop, side, _last_prompt_time, store, clock, pc, hist>>

\* reader.py:163-169, 220-221: the capture or the identifier raises; the tick
\* goes on to event matching with no character
TickTraineeError ==
  /\ pc = "idle"
  /\ \E lines \in TraineeReads :
       /\ tick' = [NoTick EXCEPT !.kind = "trainee", !.ident = "error", !.called = TRUE]
  /\ UNCHANGED <<loop, side, gate, store, clock, pc, hist>>

\* reader.py:172-187: the identifier names a template
TickTraineeHit ==
  /\ pc = "idle"
  /\ \E in \in TraineeInputs, loaded \in Reloads(portrait_templates, disk) :
       LET templates == AfterReload(portrait_templates, loaded)
       IN \E scores \in [1..Len(templates) -> ScoreLevels] :
            LET det == detect_from_roi(templates, scores, PORTRAIT_MATCH_THRESHOLD)
                event_key == in.event_key
                hits == HitCount(_current_candidate, det.name, _candidate_hits)
            IN /\ det.name # None
               /\ hits <= MaxCount
               /\ portrait_templates' = templates
               /\ _current_candidate' = det.name
               /\ _candidate_hits' = hits
               /\ IF Confirmed(hits)
                  THEN /\ _consecutive_misses' = 0
                       /\ _last_key' = event_key
                  ELSE UNCHANGED <<_consecutive_misses, _last_key>>
               /\ tick' = [NoTick EXCEPT
                             !.kind = "trainee", !.ident = "hit", !.name = det.name,
                             !.detected_char = IF Confirmed(hits) THEN det.name ELSE None,
                             !.called = TRUE]
               /\ lastId' = [res |-> "hit", name |-> det.name, key |-> << >>]
               /\ prevId' = lastId
  /\ UNCHANGED <<loop, side, _last_prompt_time, disk, clock, pc, lastReq, prevReq>>

\* reader.py:189-201, 214-218: the identifier names nothing and no label is
\* asked for: too few misses, cooldown running, or not a "Trainee Event" header
TickTraineeMiss ==
  /\ pc = "idle"
  /\ \E in \in TraineeInputs, loaded \in Reloads(portrait_templates, disk) :
       LET templates == AfterReload(portrait_templates, loaded)
       IN \E scores \in [1..Len(templates) -> ScoreLevels] :
            LET det == detect_from_roi(templates, scores, PORTRAIT_MATCH_THRESHOLD)
                event_key == in.event_key
                misses == MissCount(event_key, _last_key, _consecutive_misses)
            IN /\ det.name = None
               /\ portrait_templates' = templates
               /\ IF in.te
                  THEN /\ misses <= MaxCount
                       /\ ~ShouldPrompt(misses, clock, _last_prompt_time)
                       /\ _consecutive_misses' = misses
                       /\ _last_key' = event_key
                       /\ UNCHANGED <<_current_candidate, _candidate_hits>>
                  ELSE reset_portrait_gating
               /\ tick' = [NoTick EXCEPT
                             !.kind = "trainee", !.event_key = event_key,
                             !.header = in.header,
                             !.ident = "miss", !.called = TRUE]
               /\ lastId' = [res |-> "miss", name |-> None, key |-> event_key]
               /\ prevId' = lastId
  /\ UNCHANGED <<loop, side, _last_prompt_time, disk, clock, pc, lastReq, prevReq>>

\* reader.py:199-206: enough misses and the cooldown is over: the prompt time
\* is recorded and the request is emitted (pc = "waiting"), unless building
\* the request raises (get_trainee_names, pil_to_qimage), which ends the
\* identification block
TickTraineePrompt ==
  /\ pc = "idle"
  /\ \E in \in TraineeInputs, char_img \in Crops, loaded \in Reloads(portrait_templates, disk), raises \in BOOLEAN :
       LET templates == AfterReload(portrait_templates, loaded)
       IN \E scores \in [1..Len(templates) -> ScoreLevels] :
            LET det == detect_from_roi(templates, scores, PORTRAIT_MATCH_THRESHOLD)
                event_key == in.event_key
                misses == MissCount(event_key, _last_key, _consecutive_misses)
                now == clock
            IN /\ det.name = None
               /\ in.te
               /\ misses <= MaxCount
               /\ ShouldPrompt(misses, now, _last_prompt_time)
               /\ portrait_templates' = templates
               /\ _consecutive_misses' = misses
               /\ _last_key' = event_key
               /\ _last_prompt_time' = now
               /\ lastId' = [res |-> "miss", name |-> None, key |-> event_key]
               /\ prevId' = lastId
               /\ IF raises
                  THEN /\ tick' = [NoTick EXCEPT
                                     !.kind = "trainee", !.event_key = event_key,
                                     !.header = in.header,
                                     !.ident = "miss", !.called = TRUE]
                       /\ UNCHANGED <<pc, lastReq, prevReq>>
                  ELSE /\ tick' = [NoTick EXCEPT
                                     !.kind = "trainee", !.event_key = event_key,
                                     !.header = in.header,
                                     !.char_img = char_img,
                                     !.ident = "miss", !.prompted = TRUE]
                       /\ pc' = "waiting"
                       /\ lastReq' = now
                       /\ prevReq' = lastReq
  /\ UNCHANGED <<loop, side, _current_candidate, _candidate_hits, disk, clock>>

\* reader.py:206-221 with portraits.py:188-197: the wait ends with a name or
\* with nothing; a name is saved as a template unless nothing is left of it
\* once sanitized, or ensure_dirs or the image save raises (save_raises);
\* then the tick goes on to event matching
PromptReturn ==
  /\ pc = "waiting"
  /\ \E selected \in PromptResults, d \in {0, PromptTimeout}, save_raises \in BOOLEAN :
       LET safe == Sanitize(selected)
           raised == selected # None /\ save_raises
           stored == selected # None /\ ~save_raises /\ safe # << >>
       IN /\ clock + d <= MaxClock
          /\ clock' = clock + d
          /\ pc' = "idle"
          /\ IF stored
             THEN /\ disk' = [n \in DOMAIN disk \cup {safe} |->
                                IF n = safe THEN tick.char_img ELSE disk[n]]
                  /\ portrait_templates' = add_template(portrait_templates, safe, tick.char_img)
             ELSE UNCHANGED store
          /\ IF ResetsAfterPrompt(selected, raised)
             THEN /\ _consecutive_misses' = 0
                  /\ _current_candidate' = None
                  /\ _candidate_hits' = 0
             ELSE UNCHANGED <<_current_candidate, _candidate_hits, _consecutive_misses>>
          /\ tick' = [tick EXCEPT
                        !.selected = selected,
                        !.detected_char = selected,
                        !.saved = IF selected = None THEN "no"
                                  ELSE IF save_raises THEN "failed"
                                  ELSE IF safe = << >> THEN "rejected" ELSE "stored",
                        !.called = TRUE]
  /\ UNCHANGED <<loop, side, _last_key, _last_prompt_time, hist>>

Next ==
  \/ Elapse
  \/ TickFewLines
  \/ TickUnknown
  \/ TickSupport
  \/ TickTraineeError
  \/ TickTraineeHit
  \/ TickTraineeMiss
  \/ TickTraineePrompt
  \/ PromptReturn

Spec == Init /\ [][Next]_vars

\* ------------------------------------------- worker loop and picker dialog
\* label requests one run of the loop emits
MaxRequests == 2

EmptyDisk == [n \in {} |-> "c1"]

\* a payload as prompt_character_from_worker builds it: the Event not set,
\* the out dict empty; st: "queued", "open", "refused", "closed"; returned, ret:
\* the call that emitted it has returned, and what it returned
NewRequest ==
  [ev |-> FALSE, has |-> FALSE, name |-> None, st |-> "queued",
   returned |-> FALSE, ret |-> None]

\* out.get("name")
out_get(r) == IF r.has THEN r.name ELSE None

\* the dialogs shown: exec_() shows a dialog and returns when it is closed
Visible == {stack[i] : i \in 1..Len(stack)}

\* the guard is never taken
DialogOpen_Never(active, visible) == FALSE

\* character_picker.py:107: _active_dialog is not None and it isVisible()
DialogOpen(active, visible) == active # 0 /\ active \in visible

\* a wait with no timeout
wait_returns_NoTimeout(ev, timed_out) == ev

\* character_picker.py:146: done.wait(timeout=timeout)
wait_returns(ev, timed_out) == ev \/ timed_out

\* the exception leaves the loop and ends the thread
loop_on_exception_Uncaught(where) == "exited"

\* main.py:522-525: except Exception, then the status update and the sleep
loop_on_exception(where) == "sleep"

\* the identification error ends the tick
ident_on_exception_EndsTick(where) == "sleep"

\* reader.py:220-221: except Exception, then the tick goes on at line 230
ident_on_exception(where) == "match"

\* the loop never looks at the stop signal
loop_continues_Always(stop) == TRUE

\* main.py:520: while not stop_event.is_set()
loop_continues(stop) == ~stop

\* main.py:520-521, 528-531: the loop test, and the branch on scanning_enabled
LoopTest ==
  /\ wpc = "test"
  /\ IF loop_continues(stop_event)
     THEN \E scanning_enabled \in BOOLEAN :
            wpc' = IF scanning_enabled THEN "scan" ELSE "sleep"
     ELSE wpc' = "exited"
  /\ UNCHANGED <<reader, store, side, stop_event, main_alive, wreq, wsel, expired, failure,
                 queue, reqs, _active_dialog, stack>>

\* reader.py:129-161, 223-228: capture, OCR and the header's category; a
\* failure here leaves read_once and is caught by the loop
TickScan ==
  /\ wpc = "scan"
  /\ \E outcome \in {"raise", "few", "unknown", "support", "trainee"} :
       /\ failure' = IF outcome = "raise" THEN "scan" ELSE "none"
       /\ wpc' = CASE outcome = "raise" -> loop_on_exception("scan")
                   [] outcome \in {"few", "unknown"} -> "sleep"
                   [] outcome = "support" -> "match"
                   [] outcome = "trainee" -> "ident"
  /\ wsel' = None
  /\ UNCHANGED <<reader, store, side, stop_event, main_alive, wreq, expired, queue, reqs,
                 _active_dialog, stack>>

\* reader.py:163-205 with character_picker.py:143-145: the identification
\* block up to the prompt: it raises, or ends with a hit or a miss, or emits
\* a label request and starts to wait
TickIdent ==
  /\ wpc = "ident"
  /\ \E outcome \in {"raise", "done", "prompt"} :
       IF outcome = "prompt"
       THEN /\ Len(reqs) < MaxRequests
            /\ reqs' = Append(reqs, NewRequest)
            /\ queue' = Append(queue, Len(reqs) + 1)
            /\ wreq' = Len(reqs) + 1
            /\ expired' = FALSE
            /\ wpc' = "wait"
            /\ UNCHANGED failure
       ELSE /\ failure' = IF outcome = "raise" THEN "ident" ELSE failure
            /\ wpc' = IF outcome = "raise" THEN ident_on_exception("ident") ELSE "match"
            /\ UNCHANGED <<reqs, queue, wreq, expired>>
  /\ UNCHANGED <<reader, store, side, stop_event, main_alive, wsel, _active_dialog, stack>>

\* the timeout of the wait runs out
WaitElapses ==
  /\ wpc = "wait"
  /\ ~expired
  /\ expired' = TRUE
  /\ UNCHANGED <<reader, store, side, stop_event, main_alive, wpc, wreq, wsel, failure, queue,
                 reqs, _active_dialog, stack>>

\* character_picker.py:146: done.wait returns
WaitReturn ==
  /\ wpc = "wait"
  /\ wait_returns(reqs[wreq].ev, expired)
  /\ wpc' = "read"
  /\ UNCHANGED <<reader, store, side, stop_event, main_alive, wreq, wsel, expired, failure,
                 queue, reqs, _active_dialog, stack>>

\* character_picker.py:147 and reader.py:206-213: the result is read from the
\* out dict; a name is saved, which may raise inside the identification block
ReadOut ==
  /\ wpc = "read"
  /\ \E save_raises \in BOOLEAN :
       LET selected == out_get(reqs[wreq])
           raised == selected # None /\ save_raises
       IN /\ wsel' = selected
          /\ failure' = IF raised THEN "save" ELSE failure
          /\ wpc' = IF raised THEN ident_on_exception("save") ELSE "match"
  /\ reqs' = [reqs EXCEPT ![wreq].returned = TRUE, ![wreq].ret = out_get(reqs[wreq])]
  /\ wreq' = 0
  /\ UNCHANGED <<reader, store, side, stop_event, main_alive, expired, queue,
                 _active_dialog, stack>>

\* reader.py:230-263: event matching and the signals; a failure here leaves
\* read_once and is caught by the loop
TickMatch ==
  /\ wpc = "match"
  /\ \E raises \in BOOLEAN :
       /\ failure' = IF raises THEN "match" ELSE failure
       /\ wpc' = IF raises THEN loop_on_exception("match") ELSE "sleep"
  /\ UNCHANGED <<reader, store, side, stop_event, main_alive, wreq, wsel, expired, queue, reqs,
                 _active_dialog, stack>>

\* main.py:526-531: the status update and time.sleep
LoopSleep ==
  /\ wpc = "sleep"
  /\ wpc' = "test"
  /\ UNCHANGED <<reader, store, side, stop_event, main_alive, wreq, wsel, expired, failure,
                 queue, reqs, _active_dialog, stack>>

\* character_picker.py:90-121: the slot runs on the main thread for the next
\* posted request, also from the event loop of an open dialog: a request that
\* finds a dialog open only releases its requester; another one opens a dialog
on_request ==
  /\ main_alive
  /\ queue # << >>
  /\ LET id == Head(queue)
     IN IF DialogOpen(_active_dialog, Visible)
        THEN /\ reqs' = [reqs EXCEPT ![id].ev = TRUE, ![id].st = "refused"]
             /\ UNCHANGED <<_active_dialog, stack>>
        ELSE /\ reqs' = [reqs EXCEPT ![id].st = "open"]
             /\ _active_dialog' = id
             /\ stack' = Append(stack, id)
  /\ queue' = Tail(queue)
  /\ UNCHANGED <<reader, store, side, stop_event, main_alive, wpc, wreq, wsel, expired, failure>>

\* the slot hands an accepted name to the worker's variable itself
DialogClosed_DeliversLate ==
  /\ main_alive
  /\ stack # << >>
  /\ \E accepted \in BOOLEAN, text \in PickerTexts :
       LET d == stack[Len(stack)]
       IN /\ reqs' = [reqs EXCEPT
                        ![d].has = TRUE,
                        ![d].name = IF accepted THEN selected_name(text) ELSE None,
                        ![d].ev = TRUE,
                        ![d].st = "closed"]
          /\ wsel' = IF accepted THEN selected_name(text) ELSE wsel
  /\ _active_dialog' = 0
  /\ stack' = SubSeq(stack, 1, Len(stack) - 1)
  /\ UNCHANGED <<reader, store, side, stop_event, main_alive, wpc, wreq, expired, failure,
                 queue>>

\* character_picker.py:121-126: the user closes the innermost dialog, with
\* OK (accepted) or with Cancel; exec_ returns and the slot finishes
DialogClosed ==
  /\ main_alive
  /\ stack # << >>
  /\ \E accepted \in BOOLEAN, text \in PickerTexts :
       LET d == stack[Len(stack)]
       IN reqs' = [reqs EXCEPT
                     ![d].has = TRUE,
                     ![d].name = IF accepted THEN selected_name(text) ELSE None,
                     ![d].ev = TRUE,
                     ![d].st = "closed"]
  /\ _active_dialog' = 0
  /\ stack' = SubSeq(stack, 1, Len(stack) - 1)
  /\ UNCHANGED <<reader, store, side, stop_event, main_alive, wpc, wreq, wsel, expired, failure,
                 queue>>

\* main.py:779, 788-791: the application quits: the event loops end, every
\* open dialog returns rejected, and the stop signal is set
AppQuit ==
  /\ main_alive
  /\ main_alive' = FALSE
  /\ stop_event' = TRUE
  /\ reqs' = [i \in 1..Len(reqs) |->
                IF i \in Visible
                THEN [reqs[i] EXCEPT
                        !.ev = TRUE, !.has = TRUE, !.name = None, !.st = "closed"]
                ELSE reqs[i]]
  /\ _active_dialog' = 0
  /\ stack' = << >>
  /\ UNCHANGED <<reader, store, side, wpc, wreq, wsel, expired, failure, queue>>

Worker ==
  \/ LoopTest
  \/ TickScan
  \/ TickIdent
  \/ WaitReturn
  \/ ReadOut
  \/ TickMatch
  \/ LoopSleep

LoopInit ==
  /\ ReaderStart
  /\ portrait_templates = << >>
  /\ disk = EmptyDisk
  /\ LoopStart
  /\ CacheStart
  /\ CatalogStart
  /\ scan = << >> /\ emitted = << >>

LoopNext ==
  \/ LoopTest
  \/ TickScan
  \/ TickIdent
  \/ WaitElapses
  \/ WaitReturn
  \/ ReadOut
  \/ TickMatch
  \/ LoopSleep
  \/ on_request
  \/ DialogClosed
  \/ AppQuit

\* the worker thread is scheduled and the clock of a timed wait runs; nothing
\* obliges the user to answer or the main thread to serve a request
LoopSpec ==
  /\ LoopInit
  /\ [][LoopNext]_vars
  /\ WF_vars(Worker)
  /\ WF_vars(WaitElapses)

\* ---------------------------------------------------------------- claims
GateIdle ==
  /\ _current_candidate = None
  /\ _candidate_hits = 0
  /\ _consecutive_misses = 0
  /\ _last_key = << >>

\* a step that is one whole tick in which the identifier named a template
HitStep == pc = "idle" /\ pc' = "idle" /\ clock' = clock /\ tick'.ident = "hit"

\* a step that emits a label request
RequestStep == pc = "idle" /\ pc' = "waiting"

\* the last tick ended with a name from the label prompt
Labelled == pc = "idle" /\ tick.prompted /\ tick.selected # None

\* C1: after a trainee tick in which the identifier returned a name, the
\* character passed to find_best_match is None while the hit counter is below
\* PORTRAIT_REQUIRE_HITS; a character is passed only with the counter at 2 or
\* more, and it is the name the identifier returned.
C1_NoScopeBelowRequiredHits ==
  (pc = "idle" /\ tick.ident = "hit") =>
     /\ tick.called
     /\ _candidate_hits < PORTRAIT_REQUIRE_HITS => tick.detected_char = None
     /\ tick.detected_char # None =>
          /\ _candidate_hits >= PORTRAIT_REQUIRE_HITS
          /\ tick.detected_char = tick.name
          /\ tick.detected_char = _current_candidate

C1_Witness ==
  /\ pc = "idle" /\ tick.ident = "hit" /\ tick.called
  /\ _candidate_hits = 1
  /\ tick.name # None /\ tick.detected_char = None

\* C2: a name is confirmed by identification at a tick only if the tick that
\* ran the identifier before this one was a hit for the same name (two
\* consecutive identification hits, no miss and no other name between them).
C2_ConfirmedOnlyAfterConsecutiveHits ==
  (pc = "idle" /\ tick.ident = "hit" /\ tick.detected_char # None) =>
     /\ prevId.res = "hit"
     /\ prevId.name = tick.detected_char

\* C3: in a hit tick, a name other than the current candidate becomes the
\* candidate with the hit counter at 1 and nothing is confirmed; the
\* candidate's own name adds exactly 1 to the counter; so a hit for one name
\* right after a hit for another name confirms nothing, whatever the gate
\* held before.
C3_HitStreakRestarts ==
  [][HitStep =>
       /\ tick'.name # _current_candidate =>
            /\ _current_candidate' = tick'.name
            /\ _candidate_hits' = 1
            /\ tick'.detected_char = None
       /\ tick'.name = _current_candidate =>
            /\ _current_candidate' = _current_candidate
            /\ _candidate_hits' = _candidate_hits + 1
       /\ (lastId.res = "hit" /\ lastId.name # tick'.name) =>
            tick'.detected_char = None]_vars

C3_Witness ==
  /\ pc = "idle" /\ tick.ident = "hit"
  /\ prevId.res = "hit" /\ prevId.name # tick.name
  /\ _current_candidate = tick.name /\ _candidate_hits = 1
  /\ tick.detected_char = None

\* C4: a label request is emitted only in a tick whose miss bookkeeping left
\* the miss counter at PORTRAIT_REQUIRE_MISSES or more with the last event key
\* equal to the tick's event key, and never on the first miss of a new key:
\* the key was the last key before the tick too.
C4_PromptOnlyAfterRequiredMisses ==
  [][RequestStep =>
       /\ tick'.ident = "miss"
       /\ _consecutive_misses' >= PORTRAIT_REQUIRE_MISSES
       /\ _last_key' = tick'.event_key
       /\ _last_key = tick'.event_key
       /\ _consecutive_misses' = _consecutive_misses + 1]_vars

C4_Witness ==
  /\ pc = "waiting" /\ tick.prompted
  /\ _consecutive_misses = PORTRAIT_REQUIRE_MISSES
  /\ _last_key = tick.event_key

C6_PromptOnlyAfterConsecutiveMisses ==
  pc = "waiting" =>
     /\ lastId.res = "miss" /\ lastId.key = tick.event_key
     /\ prevId.res = "miss" /\ prevId.key = tick.event_key

\* C7: after a tick whose header is not a trainee header, support or
\* unknown, the gate is idle: no candidate, both counters 0, last key empty.
C7_NonTraineeTickResetsGate ==
  tick.kind \in {"support", "unknown"} => GateIdle

\* C8: after a tick in which the human supplied a label, the whole gate is
\* idle: no candidate, both counters 0, last key empty.
C8_LabelResetsWholeGate ==
  Labelled => GateIdle

\* C9: after a tick in which the prompt returned a name, the name is the
\* character passed to find_best_match, the crop is in the template cache,
\* and both counters are 0.
C9_LabelScopesStoresAndResets ==
  Labelled =>
     /\ tick.called /\ tick.detected_char = tick.selected
     /\ \E i \in 1..Len(portrait_templates) :
          portrait_templates[i].img = Gray(tick.char_img)
     /\ _candidate_hits = 0
     /\ _consecutive_misses = 0

\* C10: after a label tick that stored a template, the crop is stored under
\* the very name that scoped the events of that tick, so identifying the
\* stored template gives back that name.
C10_TemplateKeyIsScopingName ==
  (Labelled /\ tick.saved = "stored") =>
     \E i \in 1..Len(portrait_templates) :
        /\ portrait_templates[i].img = Gray(tick.char_img)
        /\ portrait_templates[i].name = tick.detected_char

\* ------------------------------------------- template cache under threads
\* the tick thread, which identifies and saves, and a UI thread, which loads
\* and reads
Threads == {"worker", "ui"}

\* scores cv2.matchTemplate can give (TM_CCOEFF_NORMED lies in -1..1) and
\* thresholds a caller can pass (portraits.py:124: in 0..1)
RoiScores == {-100, 50, 70, 90}
MinScores == {0, 70, 100}

NoResult == [name |-> None, score |-> 0, index |-> 0]

\* a thread's locals: ret: where load_portraits or the copy returns to; name, img: the
\* arguments of _add_template; loaded: the entries dict.update has still to
\* insert; templates: the snapshot; second: the snapshot is the one after the
\* reload; scores, min_score, result: the matching of detect_from_roi
NoLocals ==
  [ret |-> "idle", name |-> None, img |-> "c1", loaded |-> << >>,
   templates |-> << >>, second |-> FALSE, scores |-> << >>, min_score |-> 0,
   result |-> NoResult]

\* d[name] = arr
dict_set(d, name, arr) ==
  IF name \in Keys(d)
  THEN [i \in 1..Len(d) |-> IF d[i].name = name THEN [name |-> name, img |-> arr] ELSE d[i]]
  ELSE Append(d, [name |-> name, img |-> arr])

\* the lock is never waited for
CanAcquire_NoLock(lock) == TRUE

\* portraits.py:82, 105, 129, 134: with portrait_lock
CanAcquire(lock) == lock = "free"

\* the position after each with portrait_lock is entered
AfterLock ==
  [p \in {"lp_lock", "add_lock", "snap_lock"} |->
     CASE p = "lp_lock" -> "lp_clear" [] p = "add_lock" -> "add_set"
       [] p = "snap_lock" -> "snap_copy"]

\* portraits.py:70-80: load_portraits lists the directory and reads the files
StartLoad(t) ==
  /\ tpc[t] = "idle"
  /\ \E loaded \in LoadOrders(disk) :
       tl' = [tl EXCEPT ![t] = [NoLocals EXCEPT !.loaded = loaded]]
  /\ tpc' = [tpc EXCEPT ![t] = "lp_lock"]
  /\ UNCHANGED <<reader, loop, catalog, scan, emitted, store, portrait_lock, committed>>

\* portraits.py:188-195, 104: save_portrait writes the file and calls
\* _add_template, which converts the image before it takes the lock
StartAdd(t) ==
  /\ tpc[t] = "idle"
  /\ \E name \in {NameA, NameAA}, img \in Crops :
       /\ tl' = [tl EXCEPT ![t] = [NoLocals EXCEPT !.name = name, !.img = img]]
       /\ disk' = [n \in DOMAIN disk \cup {name} |-> IF n = name THEN img ELSE disk[n]]
  /\ tpc' = [tpc EXCEPT ![t] = "add_lock"]
  /\ UNCHANGED <<reader, loop, catalog, scan, emitted, portrait_templates, portrait_lock, committed>>

\* main.py:192-194: a reader of the UI thread copies the cache under the lock
StartRead(t) ==
  /\ tpc[t] = "idle"
  /\ tl' = [tl EXCEPT ![t] = [NoLocals EXCEPT !.ret = "read"]]
  /\ tpc' = [tpc EXCEPT ![t] = "snap_lock"]
  /\ UNCHANGED <<reader, loop, catalog, scan, emitted, store, portrait_lock, committed>>

\* portraits.py:129: detect_from_roi is entered
StartDetect(t) ==
  /\ tpc[t] = "idle"
  /\ tl' = [tl EXCEPT ![t] = NoLocals]
  /\ tpc' = [tpc EXCEPT ![t] = "snap_lock"]
  /\ UNCHANGED <<reader, loop, catalog, scan, emitted, store, portrait_lock, committed>>

\* portraits.py:82, 105, 129, 134: the lock is taken
Lock(t) ==
  /\ tpc[t] \in DOMAIN AfterLock
  /\ CanAcquire(portrait_lock)
  /\ portrait_lock' = t
  /\ tpc' = [tpc EXCEPT ![t] = AfterLock[tpc[t]]]
  /\ UNCHANGED <<reader, loop, catalog, scan, emitted, store, tl, committed>>

\* portraits.py:83: portrait_templates.clear()
Clear(t) ==
  /\ tpc[t] = "lp_clear"
  /\ portrait_templates' = << >>
  /\ tpc' = [tpc EXCEPT ![t] = "lp_update"]
  /\ UNCHANGED <<reader, loop, catalog, scan, emitted, disk, portrait_lock, tl, committed>>

\* portraits.py:84: portrait_templates.update(loaded), one entry at a time
Update(t) ==
  /\ tpc[t] = "lp_update"
  /\ IF tl[t].loaded = << >>
     THEN /\ tpc' = [tpc EXCEPT ![t] = "lp_unlock"]
          /\ UNCHANGED <<portrait_templates, tl>>
     ELSE LET e == Head(tl[t].loaded)
          IN /\ portrait_templates' = dict_set(portrait_templates, e.name, e.img)
             /\ tl' = [tl EXCEPT ![t].loaded = Tail(@)]
             /\ UNCHANGED tpc
  /\ UNCHANGED <<reader, loop, catalog, scan, emitted, disk, portrait_lock, committed>>

\* portraits.py:106: portrait_templates[name] = arr
Set(t) ==
  /\ tpc[t] = "add_set"
  /\ portrait_templates' = add_template(portrait_templates, tl[t].name, tl[t].img)
  /\ tpc' = [tpc EXCEPT ![t] = "add_unlock"]
  /\ UNCHANGED <<reader, loop, catalog, scan, emitted, disk, portrait_lock, tl, committed>>

\* portraits.py:130, 135: templates = portrait_templates.copy()
Copy(t) ==
  /\ tpc[t] = "snap_copy"
  /\ tl' = [tl EXCEPT ![t].templates = portrait_templates]
  /\ tpc' = [tpc EXCEPT ![t] = "snap_unlock"]
  /\ UNCHANGED <<reader, loop, catalog, scan, emitted, store, portrait_lock, committed>>

\* the with block is left: after a write the cache is a whole map again;
\* load_portraits returns to its caller, detect_from_roi goes on
Unlock(t) ==
  /\ tpc[t] \in {"lp_unlock", "add_unlock", "snap_unlock"}
  /\ portrait_lock' = "free"
  /\ committed' = IF tpc[t] = "snap_unlock" THEN committed ELSE portrait_templates
  /\ tpc' = [tpc EXCEPT ![t] =
               CASE tpc[t] = "add_unlock" -> "idle"
                 [] tpc[t] = "snap_unlock" ->
                      IF tl[t].ret = "read" THEN "idle" ELSE "snap_check"
                 [] tpc[t] = "lp_unlock" ->
                      IF tl[t].ret = "detect" THEN "snap_lock" ELSE "idle"]
  /\ tl' = IF tpc[t] = "snap_unlock" THEN tl ELSE [tl EXCEPT ![t] = [NoLocals EXCEPT !.second = tl[t].second]]
  /\ UNCHANGED <<reader, loop, catalog, scan, emitted, store>>

\* portraits.py:132-137: an empty snapshot is followed by one reload from
\* disk and a second snapshot; then the matching starts
Check(t) ==
  /\ tpc[t] = "snap_check"
  /\ IF tl[t].templates = << >> /\ ~tl[t].second
     THEN \E loaded \in LoadOrders(disk) :
            /\ tl' = [tl EXCEPT ![t] = [NoLocals EXCEPT
                                          !.ret = "detect", !.loaded = loaded,
                                          !.second = TRUE]]
            /\ tpc' = [tpc EXCEPT ![t] = "lp_lock"]
     ELSE /\ tpc' = [tpc EXCEPT ![t] = "match"]
          /\ UNCHANGED tl
  /\ UNCHANGED <<reader, loop, catalog, scan, emitted, store, portrait_lock, committed>>

\* portraits.py:136-165: the scores of the snapshot's templates decide
Match(t) ==
  /\ tpc[t] = "match"
  /\ \E scores \in [1..Len(tl[t].templates) -> RoiScores], min_score \in MinScores :
       tl' = [tl EXCEPT ![t].scores = scores, ![t].min_score = min_score,
                        ![t].result = detect_from_roi(tl[t].templates, scores, min_score)]
  /\ tpc' = [tpc EXCEPT ![t] = "done"]
  /\ UNCHANGED <<reader, loop, catalog, scan, emitted, store, portrait_lock, committed>>

\* detect_from_roi returns
Return(t) ==
  /\ tpc[t] = "done"
  /\ tl' = [tl EXCEPT ![t] = NoLocals]
  /\ tpc' = [tpc EXCEPT ![t] = "idle"]
  /\ UNCHANGED <<reader, loop, catalog, scan, emitted, store, portrait_lock, committed>>

\* main.py:653: the cache after start-up, loaded from the portrait files or
\* still empty
CacheInit ==
  /\ ReaderStart
  /\ LoopStart
  /\ CatalogStart
  /\ scan = << >> /\ emitted = << >>
  /\ disk \in DiskOptions
  /\ portrait_templates \in LoadOrders(disk) \cup {<< >>}
  /\ portrait_lock = "free"
  /\ tpc = [t \in Threads |-> "idle"]
  /\ tl = [t \in Threads |-> NoLocals]
  /\ committed = portrait_templates

CacheNext ==
  \/ StartLoad("ui")
  \/ StartRead("ui")
  \/ StartAdd("worker")
  \/ StartDetect("worker")
  \/ \E t \in Threads : Lock(t)
  \/ \E t \in Threads : Clear(t)
  \/ \E t \in Threads : Update(t)
  \/ \E t \in Threads : Set(t)
  \/ \E t \in Threads : Copy(t)
  \/ \E t \in Threads : Unlock(t)
  \/ \E t \in Threads : Check(t)
  \/ \E t \in Threads : Match(t)
  \/ \E t \in Threads : Return(t)

CacheSpec == CacheInit /\ [][CacheNext]_vars

\* ------------------------------------------------- catalog and matching
\* the characters of the names below, in code point order
CharOrder == <<" ", "?", "A", "C", "D", "I", "S", "W", "a", "c", "d", "e", "i", "k", "l", "m", "n", "o", "p", "r", "s", "t", "u", "x">>

Ord(c) == CHOOSE i \in 1..Len(CharOrder) : CharOrder[i] = c

\* event names of the catalog files
EvSummerCamp == <<"S", "u", "m", "m", "e", "r", " ", "C", "a", "m", "p">>
EvSummerCamps == <<"S", "u", "m", "m", "e", "r", " ", "C", "a", "m", "p", "s">>
EvSummerCampLow == <<"s", "u", "m", "m", "e", "r", " ", "c", "a", "m", "p">>
EvInspiration == <<"I", "n", "s", "p", "i", "r", "a", "t", "i", "o", "n">>
EvInspirations == <<"i", "n", "s", "p", "i", "r", "a", "t", "i", "o", "n", "s">>
EvWalk == <<"W", "a", "l", "k">>
EvDances == <<"D", "a", "n", "c", "e", "s">>
EvDanced == <<"D", "a", "n", "c", "e", "d">>

\* event lines as OCR gives them (LineDance and LineWalk are above)
LineSummerCamp == <<"S", "u", "m", "m", "e", "r", " ", "C", "a", "m", "p">>
LineInspiration == <<"i", "n", "s", "p", "i", "r", "a", "t", "i", "o", "n">>
LineWal == <<"W", "a", "l">>
MatchLines == {<< >>, LineWal, LineWalk, LineDance, LineSummerCamp, LineInspiration}

\* events.py:150: the phrases that raise the cutoff
AmbiguousPhrases == {LineInspiration, EvSummerCampLow}

\* character names a caller can pass: none, names of the index, a name with
\* a blank before or after it, a name the index does not know
NameBlankA == <<" ", "A">>
NameABlank == <<"A", " ">>
NameX == <<"x">>
MatchNames == {None, NameA, NameAA, NameBlankA, NameABlank, NameX}

\* base confidences, in hundredths
Confidences == {0, 70, 100}

\* a dict with no key
EmptyMap == << >>

\* an event map: event name -> options; the options say which map they are of
Options(owner, events) == [e \in events |-> <<owner, e>>]

GlobalTrainee == Options("trainee", {EvSummerCamp, EvSummerCampLow, EvInspiration, EvWalk})
GlobalSupport == Options("support", {EvDances, EvDanced, EvInspirations})

MapA == Options("A", {EvSummerCamps, EvWalk})
MapAA == Options("AA", {EvSummerCamp})

\* the per-character index: an entry for A and for AA, and an entry with no
\* event for the name with a blank before it
IndexNew ==
  [n \in {NameA, NameAA, NameBlankA} |->
     IF n = NameA THEN MapA ELSE IF n = NameAA THEN MapAA ELSE EmptyMap]

IndexLegacy == [n \in {NameA} |-> Options("legacy", {EvWalk})]

\* a file of the events folder: readable JSON with its content, or not
File(data) == [ok |-> TRUE, data |-> data]
NoFile == [ok |-> FALSE, data |-> EmptyMap]

\* the events folder: trainee_events_by_character.json, trainee_by_character.json,
\* trainee_events.json, support_events.json
FolderStates ==
  { [new |-> File(IndexNew), legacy |-> NoFile,
     trainee |-> File(GlobalTrainee), support |-> File(GlobalSupport)],
    [new |-> NoFile, legacy |-> File(IndexLegacy),
     trainee |-> File(GlobalTrainee), support |-> File(GlobalSupport)],
    [new |-> NoFile, legacy |-> NoFile,
     trainee |-> File(GlobalTrainee), support |-> File(GlobalSupport)],
    [new |-> NoFile, legacy |-> NoFile, trainee |-> NoFile, support |-> NoFile] }

\* str < str of Python: by code points, a proper prefix first
RECURSIVE LexLess(_, _)
LexLess(x, y) ==
  IF y = << >> THEN FALSE
  ELSE IF x = << >> THEN TRUE
  ELSE IF Head(x) = Head(y) THEN LexLess(Tail(x), Tail(y))
  ELSE Ord(Head(x)) < Ord(Head(y))

\* how far a[i..] and b[j..] agree
RECURSIVE Extent(_, _, _, _)
Extent(a, b, i, j) ==
  IF i <= Len(a) /\ j <= Len(b) /\ a[i] = b[j] THEN 1 + Extent(a, b, i + 1, j + 1) ELSE 0

\* SequenceMatcher.find_longest_match with no junk: the longest block, the
\* one that starts earliest in a, then earliest in b; <<i, j, 0>> if none
LongestMatch(a, b) ==
  LET starts == {p \in (1..Len(a)) \X (1..Len(b)) : a[p[1]] = b[p[2]]}
      size(p) == Extent(a, b, p[1], p[2])
  IN IF starts = {} THEN <<1, 1, 0>>
     ELSE LET best == CHOOSE p \in starts :
                        \A q \in starts :
                          \/ size(p) > size(q)
                          \/ /\ size(p) = size(q)
                             /\ \/ p[1] < q[1]
                                \/ p[1] = q[1] /\ p[2] <= q[2]
          IN <<best[1], best[2], size(best)>>

\* SequenceMatcher.get_matching_blocks: the sizes of the blocks, summed; the
\* longest block, then the same to its left and to its right
RECURSIVE Matches(_, _)
Matches(a, b) ==
  IF a = << >> \/ b = << >> THEN 0
  ELSE LET m == LongestMatch(a, b)
       IN IF m[3] = 0 THEN 0
          ELSE m[3] + Matches(SubSeq(a, 1, m[1] - 1), SubSeq(b, 1, m[2] - 1))
                    + Matches(SubSeq(a, m[1] + m[3], Len(a)), SubSeq(b, m[2] + m[3], Len(b)))

\* SequenceMatcher.ratio() >= cutoff, with seq1 the candidate and seq2 the
\* word: 2.0 * matches / (len(a) + len(b)) against a cutoff in hundredths;
\* real_quick_ratio and quick_ratio are upper bounds of ratio and refuse
\* nothing ratio accepts
Close(word, x, cutoff) == 200 * Matches(x, word) >= cutoff * (Len(x) + Len(word))

\* (ratio, x) > (ratio, y) as tuples
Above(word, x, y) ==
  LET mx == Matches(x, word) * (Len(y) + Len(word))
      my == Matches(y, word) * (Len(x) + Len(word))
  IN mx > my \/ (mx = my /\ LexLess(y, x))

\* difflib.get_close_matches(word, possibilities, n=1, cutoff): the list of
\* the best candidate at or above the cutoff, or the empty list
get_close_matches(word, possibilities, cutoff) ==
  LET close == {x \in possibilities : Close(word, x, cutoff)}
  IN IF close = {} THEN << >>
     ELSE << CHOOSE x \in close : \A y \in close \ {x} : Above(word, x, y) >>

\* what find_best_match returns: (name, options), (None, None) if not found
NoMatch == [found |-> FALSE, name |-> None, options |-> None]

\* the cache of load_events_by_char: no entry for the key, or the index
NotCached == [set |-> FALSE, data |-> EmptyMap]

\* events.py:48-66: the cached index, or the first of the two files that
\* loads, or the empty index
load_events_by_char(cached, dir) ==
  IF cached.set THEN cached.data
  ELSE IF dir.new.ok THEN dir.new.data
  ELSE IF dir.legacy.ok THEN dir.legacy.data
  ELSE EmptyMap

\* events.py:87-93: the file of the category, or {} on any error
load_events(category, dir) ==
  IF dir[category].ok THEN dir[category].data ELSE EmptyMap

\* dict.get: the value, or None
dict_get(d, k) ==
  IF k \in DOMAIN d THEN [none |-> FALSE, map |-> d[k]] ELSE [none |-> TRUE, map |-> EmptyMap]

\* x or y on two results of dict.get: x if it is a map with a key, else y
EitherMap(x, y) == IF ~x.none /\ DOMAIN x.map # {} THEN x ELSE y

\* three characters are enough
TooShort_Three(event_line) == event_line = << >> \/ Len(event_line) < 3

\* events.py:126: if not event_line or len(event_line) < 4
TooShort(event_line) == event_line = << >> \/ Len(event_line) < 4

\* the base confidence is the cutoff for every line
Cutoff_NoRaise(event_line, confidence) == confidence

\* events.py:147-149: the cutoff, raised for a line with an ambiguous phrase
Cutoff(event_line, confidence) ==
  IF \E s \in AmbiguousPhrases : Contains(Lower(event_line), s)
  THEN IF confidence > 95 THEN confidence ELSE 95
  ELSE confidence

\* the scoped lookup never gives way to the global map
FallsBack_Never(scoped) == FALSE

\* events.py:138: if candidates_map is None
FallsBack(scoped) == scoped.none

\* events.py:130-141: the map the candidates are taken from
candidates_map(category, character_name, by_char, dir) ==
  IF category = "trainee"
  THEN LET scoped == IF character_name # None
                     THEN EitherMap(dict_get(by_char, character_name),
                                    dict_get(by_char, Strip(character_name)))
                     ELSE [none |-> TRUE, map |-> EmptyMap]
       IN IF FallsBack(scoped) THEN load_events("trainee", dir) ELSE scoped.map
  ELSE load_events(category, dir)

\* events.py:143-157: the best key of the map at or above the cutoff, with
\* its value
match_in(map, event_line, confidence) ==
  IF DOMAIN map = {} THEN NoMatch
  ELSE LET matches == get_close_matches(event_line, DOMAIN map, Cutoff(event_line, confidence))
       IN IF matches # << >>
          THEN [found |-> TRUE, name |-> matches[1], options |-> map[matches[1]]]
          ELSE NoMatch

\* events.py:96-157
find_best_match(event_line, category, character_name, confidence, by_char, dir) ==
  IF TooShort(event_line) THEN NoMatch
  ELSE match_in(candidates_map(category, character_name, by_char, dir), event_line, confidence)

\* events.py:138-141: the call reads the category's global file
ReadsGlobal(event_line, category, character_name, by_char) ==
  /\ ~TooShort(event_line)
  /\ \/ category # "trainee"
     \/ character_name = None
     \/ FallsBack(EitherMap(dict_get(by_char, character_name),
                            dict_get(by_char, Strip(character_name))))

NoCall ==
  [event_line |-> << >>, category |-> "none", character_name |-> None, confidence |-> 0,
   cutoff |-> 0, found |-> FALSE, name |-> None, options |-> None]

\* reader.py:235-241: one call of find_best_match by the tick thread; the
\* index is loaded, and cached, on the way of a trainee line that is long enough
CallFindBestMatch ==
  /\ m_call = NoCall
  /\ \E event_line \in MatchLines, category \in {"trainee", "support"},
        character_name \in MatchNames, confidence \in Confidences :
       LET by_char == load_events_by_char(_events_by_char_cache, folder)
           res == find_best_match(event_line, category, character_name, confidence,
                                  by_char, folder)
       IN /\ m_call' = [event_line |-> event_line, category |-> category,
                        character_name |-> character_name, confidence |-> confidence,
                        cutoff |-> Cutoff(event_line, confidence),
                        found |-> res.found, name |-> res.name, options |-> res.options]
          /\ _events_by_char_cache' =
               IF ~TooShort(event_line) /\ category = "trainee"
               THEN [set |-> TRUE, data |-> by_char]
               ELSE _events_by_char_cache
          /\ first_load' =
               IF ReadsGlobal(event_line, category, character_name, by_char)
                    /\ ~first_load[category].set
               THEN [first_load EXCEPT ![category] =
                       [set |-> TRUE, data |-> load_events(category, folder)]]
               ELSE first_load
  /\ UNCHANGED <<reader, store, loop, scan, emitted, cache, folder>>

\* reader.py:243-263: the tick has used the result and ends
CallReturns ==
  /\ m_call # NoCall
  /\ m_call' = NoCall
  /\ UNCHANGED <<reader, store, loop, scan, emitted, cache, _events_by_char_cache, folder, first_load>>

\* the files of the events folder are replaced while the program runs
FolderChanges ==
  /\ \E dir \in FolderStates \ {folder} : folder' = dir
  /\ UNCHANGED <<reader, store, loop, scan, emitted, cache, m_call, _events_by_char_cache, first_load>>

MatchInit ==
  /\ ReaderStart
  /\ portrait_templates = << >>
  /\ disk = EmptyDisk
  /\ LoopStart
  /\ CacheStart
  /\ m_call = NoCall
  /\ _events_by_char_cache = NotCached
  /\ folder \in FolderStates
  /\ first_load = [c \in {"trainee", "support"} |-> NotCached]
  /\ scan = << >> /\ emitted = << >>

MatchNext ==
  \/ CallFindBestMatch
  \/ CallReturns
  \/ FolderChanges

MatchSpec == MatchInit /\ [][MatchNext]_vars

\* ------------------------------------------- the output path of read_once
\* characters of a raw event line
MaxRaw == 7

\* the texts of the output path: event names, effect texts, skill names
Txt ==
  [dash |-> <<"D", "a", "s", "h">>,
   step |-> <<"s", "t", "e", "p">>,
   top |-> <<"T", "o", "p">>,
   bot |-> <<"B", "o", "t">>,
   step_up |-> <<"S", "t", "e", "p", " ", "+", "1">>,
   two_lines |-> <<"d", "a", "s", "h", " ", "+", "1", "\n", "S", "t", "e", "p">>,
   energy |-> <<"e", "n", "e", "r", "g", "y">>]

\* events/trainee_events.json and support_events.json for the output path:
\* an event's options are its (label, effect) pairs in the file's order; "Dash"
\* names a skill in its title only, "Walk" has an effect of two lines, "Dance"
\* has no option
OutFolder ==
  LET events ==
        [e \in {Txt.dash, LineWalk, LineDance} |->
           IF e = Txt.dash
           THEN << <<Txt.top, Txt.step_up>>, <<Txt.bot, Txt.energy>> >>
           ELSE IF e = LineWalk THEN << <<Txt.top, Txt.two_lines>> >>
           ELSE << >>]
  IN [new |-> NoFile, legacy |-> NoFile, trainee |-> File(events), support |-> File(events)]

\* what a tick is given: the non-empty OCR lines, the character the
\* identification block ended with, and parsed_skills (the names, in the
\* order of the file)
OutInputs ==
  LET skills == {<< >>, <<Txt.dash>>, <<Txt.step>>, <<Txt.dash, Txt.step>>,
                 <<Txt.step, Txt.energy, Txt.dash>>}
      known == {Txt.dash, LineWalk, LineDance, LineDanceNoise}
      \* reader.py:145: a line that is blank once stripped is dropped
      raw == {r \in UNION {[1..n -> {"a", " ", "ZWSP"}] : n \in 0..MaxRaw} :
                Strip(r) # << >>}
      reads == {<< >>} \cup {<<h>> : h \in Headers}
                 \cup {<<h, e>> : h \in Headers, e \in known}
  IN [lines : reads, detected_char : {None, NameA}, parsed_skills : skills]
       \cup [lines : {<<HdrTraineeEvent, r>> : r \in raw}, detected_char : {None},
              parsed_skills : {<<Txt.dash>>}]

\* str.split(sep) for a separator of one character
RECURSIVE Split(_, _)
Split(s, sep) ==
  LET at == {i \in 1..Len(s) : s[i] = sep}
  IN IF at = {} THEN <<s>>
     ELSE LET i == CHOOSE k \in at : \A j \in at : k <= j
          IN <<SubSeq(s, 1, i - 1)>> \o Split(SubSeq(s, i + 1, Len(s)), sep)

\* reader.py:245-252: the title, then for each option its label with the
\* first line of the effect, then the effect's other lines
overlay_lines(event_name, event_options) ==
  LET RECURSIVE of_options(_)
      of_options(opts) ==
        IF opts = << >> THEN << >>
        ELSE LET effect_lines == Split(Head(opts)[2], "\n")
             IN <<Head(opts)[1] \o <<":", " ">> \o effect_lines[1]>>
                  \o Tail(effect_lines) \o of_options(Tail(opts))
  IN <<event_name>> \o of_options(event_options)

\* reader.py:254-257: for each overlay line, each skill whose lowered name
\* is in the lowered line, in the order of parsed_skills
matched_skills(lines, parsed_skills) ==
  LET RECURSIVE scan_line(_, _)
      scan_line(line, skills) ==
        IF skills = << >> THEN << >>
        ELSE (IF Contains(Lower(line), Lower(Head(skills))) THEN <<Head(skills)>> ELSE << >>)
               \o scan_line(line, Tail(skills))
      RECURSIVE scan_lines(_)
      scan_lines(ls) ==
        IF ls = << >> THEN << >> ELSE scan_line(Head(ls), parsed_skills) \o scan_lines(Tail(ls))
  IN scan_lines(lines)

\* the overlay is shown for every name the matcher returns
Resolved_NameOnly(event_name, event_options) == event_name # None

\* reader.py:243: if event_name and event_options
Resolved(event_name, event_options) == event_name # None /\ event_options # << >>

\* reader.py:150-156, 159-161, 223-228, 235-263 for a tick that returns: the
\* trimmed line, the event key, the result of find_best_match with the
\* default confidence, and the signals with their payloads
read_once_output(lines, detected_char, parsed_skills, dir) ==
  LET hide == [event_line |-> None, event_key |-> None, matched |-> FALSE,
               res |-> NoMatch, signals |-> << <<"hide_all">> >>]
  IN IF Len(lines) < 2 \/ Category(lines) = "unknown" THEN hide
     ELSE LET category == Category(lines)
              event_line == trim_after_big_gap(lines[2], 4)
              res == find_best_match(event_line, category,
                                     IF category = "trainee" THEN detected_char ELSE None,
                                     TextMatchConfidence,
                                     load_events_by_char(NotCached, dir), dir)
              shown == overlay_lines(res.name, res.options)
          IN [event_line |-> event_line,
              event_key |-> IF category = "trainee" THEN EventKey(event_line) ELSE None,
              matched |-> TRUE,
              res |-> res,
              signals |->
                IF Resolved(res.name, res.options)
                THEN << <<"set_overlay", shown>>, <<"show_overlay">>,
                        <<"update_skills", matched_skills(shown, parsed_skills)>> >>
                ELSE << <<"hide_all">> >>]

\* one tick: from the OCR lines to the signals
OutTick ==
  /\ emitted = << >>
  /\ emitted' = read_once_output(scan.lines, scan.detected_char, scan.parsed_skills, OutFolder)
  /\ UNCHANGED <<reader, store, loop, cache, catalog, scan>>

OutInit ==
  /\ ReaderStart
  /\ portrait_templates = << >>
  /\ disk = EmptyDisk
  /\ LoopStart
  /\ CacheStart
  /\ CatalogStart
  /\ scan \in OutInputs
  /\ emitted = << >>

OutSpec == OutInit /\ [][OutTick]_vars

\* -------------------------------------- claims on the loop and the dialog
Queued == {queue[i] : i \in 1..Len(queue)}

\* C11: at most one dialog is inside exec_() in every reachable state, and a
\* request the slot met with a dialog open has its Event set, its out dict
\* still empty, no dialog and no place in the queue; the call that emitted
\* it, once returned, returned None.
C11_SingleDialog ==
  /\ Len(stack) <= 1
  /\ \A i \in 1..Len(reqs) :
       reqs[i].st = "refused" =>
         /\ reqs[i].ev
         /\ ~reqs[i].has
         /\ i \notin Visible
         /\ i \notin Queued
         /\ reqs[i].returned => reqs[i].ret = None

C11_Witness ==
  \E i, j \in 1..Len(reqs) :
    /\ reqs[i].st = "open" /\ i \in Visible
    /\ reqs[j].st = "refused" /\ reqs[j].returned

\* C12: a worker waiting in prompt_character_from_worker leaves the wait and
\* the tick that asked reaches its end, whatever the user and the main
\* thread do.
C12_PromptReturns ==
  /\ (wpc = "wait") ~> (wpc = "read")
  /\ (wpc = "wait") ~> (wpc = "sleep")

C12_Witness ==
  /\ wpc = "read"
  /\ expired
  /\ ~reqs[wreq].ev
  /\ wreq \in Visible

\* C13: once the stop signal is set the worker reaches the end of
\* continuous_scan; a tick starts only from a loop test that found the signal
\* not set, and the worker that left the loop starts nothing.
C13_StopEndsLoop ==
  /\ stop_event ~> (wpc = "exited")
  /\ [][(wpc' = "scan" /\ wpc # "scan") => (wpc = "test" /\ ~stop_event)]_vars
  /\ [][wpc = "exited" => wpc' = "exited"]_vars

C13_Witness ==
  /\ wpc = "exited"
  /\ \E i \in 1..Len(reqs) : reqs[i].returned /\ reqs[i].st = "queued"

\* C14: a failure of capture, OCR or matching ends the tick and leaves the
\* worker in the loop, at the sleep before the next loop test; a failure in
\* the identification block (the save of a label included) leaves the worker
\* in the tick, at event matching; the worker leaves the loop only from a
\* loop test that found the stop signal set, and a loop test that found it
\* not set goes on.
C14_TickFailuresAreCaught ==
  [][/\ (failure' # failure /\ failure' \in {"scan", "match"}) => wpc' = "sleep"
     /\ (failure' # failure /\ failure' \in {"ident", "save"}) => wpc' = "match"
     /\ (wpc' = "exited" /\ wpc # "exited") => (wpc = "test" /\ stop_event)
     /\ (wpc = "test" /\ ~stop_event) => wpc' \in {"test", "scan", "sleep"}]_vars

C14_Witness ==
  /\ wpc = "scan"
  /\ failure = "match"
  /\ ~stop_event

\* ------------------------------------------- claims on the template cache
\* the entry of a name in a cache
Entry(d, n) ==
  LET at == {i \in 1..Len(d) : d[i].name = n}
  IN IF at = {} THEN <<"absent">> ELSE <<"entry", d[CHOOSE i \in at : TRUE].img>>

MaxScore(scores) ==
  CHOOSE m \in {scores[i] : i \in DOMAIN scores} : \A i \in DOMAIN scores : scores[i] <= m

\* C15: every copy a thread takes under the lock is the cache as the last
\* finished write left it, whatever load_portraits or _add_template another
\* thread is in the middle of; and the assignment of _add_template sets the
\* entry of its name and leaves every other entry, present or absent, as it was.
C15_CacheWritesAtomic ==
  [][\A t \in Threads :
       /\ (tpc[t] = "snap_copy" /\ tpc'[t] = "snap_unlock") =>
            tl'[t].templates = committed
       /\ (tpc[t] = "add_set" /\ tpc'[t] = "add_unlock") =>
            /\ Entry(portrait_templates', tl[t].name) = <<"entry", Gray(tl[t].img)>>
            /\ \A n \in (Keys(portrait_templates) \cup Keys(portrait_templates')) \ {tl[t].name} :
                 Entry(portrait_templates', n) = Entry(portrait_templates, n)]_vars

C15_Witness ==
  /\ tpc["ui"] = "snap_unlock"
  /\ tl["ui"].templates # << >>
  /\ tpc["worker"] = "add_lock"
  /\ tl["worker"].name \in Keys(tl["ui"].templates)
  /\ Entry(tl["ui"].templates, tl["worker"].name) # <<"entry", Gray(tl["worker"].img)>>

\* C16: when detect_from_roi returns, with templates in its snapshot: the
\* name is not None exactly if the highest score is >= min_score, the name
\* is then that of a template with the highest score and the score returned
\* is the highest score in both cases; with no template, the snapshot is the
\* one taken after the reload and the result is (None, 0).
C16_DetectReturnsBestAboveThreshold ==
  \A t \in Threads :
    tpc[t] = "done" =>
      IF tl[t].templates = << >>
      THEN /\ tl[t].second
           /\ tl[t].result.name = None
           /\ tl[t].result.score = 0
      ELSE LET top == MaxScore(tl[t].scores)
           IN /\ (tl[t].result.name # None) <=> (top >= tl[t].min_score)
              /\ tl[t].result.score = top
              /\ tl[t].result.name # None =>
                   \E i \in 1..Len(tl[t].templates) :
                     /\ tl[t].templates[i].name = tl[t].result.name
                     /\ tl[t].scores[i] = top

C16_Witness ==
  /\ tpc["worker"] = "done"
  /\ Len(tl["worker"].templates) = 2
  /\ tl["worker"].result.name # None
  /\ tl["worker"].result.score = tl["worker"].min_score
  /\ tl["worker"].scores[1] < tl["worker"].scores[2]

\* ------------------------------------------------ claims on the matcher
\* the index the last trainee call used: once cached it never changes
IndexUsed == _events_by_char_cache.data

\* the last call was a trainee call that got as far as the candidate map
TraineeCall == m_call.category = "trainee" /\ ~TooShort(m_call.event_line)

Returned == [found |-> m_call.found, name |-> m_call.name, options |-> m_call.options]

\* C17: a call of find_best_match with an event line of fewer than 4
\* characters returns (None, None), whatever the category, the character,
\* the confidence and the files.
C17_ShortLineMatchesNothing ==
  (m_call # NoCall /\ Len(m_call.event_line) < 4) => Returned = NoMatch

C17_Witness ==
  /\ m_call.event_line = LineWal
  /\ m_call.category = "trainee"
  /\ m_call.character_name = NameA
  /\ m_call.confidence = 0
  /\ _events_by_char_cache = NotCached
  /\ folder.new.ok /\ folder.trainee.ok

\* C18: for a line that contains an ambiguous phrase, in any case of
\* letters, the cutoff used is at least 95 and at least the base confidence,
\* and a name that is returned has a ratio of at least 0.95 to the line.
C18_AmbiguousLineNeedsHighRatio ==
  (m_call # NoCall /\ \E s \in AmbiguousPhrases : Contains(Lower(m_call.event_line), s)) =>
     /\ m_call.cutoff >= 95
     /\ m_call.cutoff >= m_call.confidence
     /\ m_call.found =>
          200 * Matches(m_call.name, m_call.event_line)
            >= 95 * (Len(m_call.name) + Len(m_call.event_line))

C18_Witness ==
  /\ m_call.event_line = LineSummerCamp
  /\ m_call.confidence = 0
  /\ m_call.found
  /\ m_call.name = EvSummerCamps

\* C19: after a trainee call with a character that has an entry in the
\* index, whatever is returned is a key of that entry with that entry's
\* value for it.
C19_ScopedToTheCharactersMap ==
  (TraineeCall /\ m_call.character_name # None /\ m_call.character_name \in DOMAIN IndexUsed) =>
     (m_call.found =>
        /\ m_call.name \in DOMAIN IndexUsed[m_call.character_name]
        /\ m_call.options = IndexUsed[m_call.character_name][m_call.name])

\* a step that is one call of find_best_match
CallStep == m_call = NoCall /\ m_call' # NoCall

\* C20 as stated: a trainee call with no character, or with a character
\* that has no entry in the index, returns what matching against the global
\* trainee map returns, and (None, None) if that map does not load.
C20_NoEntryFallsBackToGlobal ==
  [][(CallStep /\ m_call'.category = "trainee"
        /\ (m_call'.character_name = None
              \/ m_call'.character_name \notin DOMAIN _events_by_char_cache'.data)) =>
       /\ [found |-> m_call'.found, name |-> m_call'.name, options |-> m_call'.options]
            = IF TooShort(m_call'.event_line) THEN NoMatch
              ELSE match_in(load_events("trainee", folder), m_call'.event_line,
                            m_call'.confidence)
       /\ ~folder.trainee.ok => ~m_call'.found]_vars

\* C20 amended: the same for a trainee call with no character, or with a
\* character such that neither the name nor the name stripped of blanks has
\* an entry in the index.
C20_NoEntryEitherWayFallsBackToGlobal ==
  [][(CallStep /\ m_call'.category = "trainee"
        /\ (m_call'.character_name = None
              \/ /\ m_call'.character_name \notin DOMAIN _events_by_char_cache'.data
                 /\ Strip(m_call'.character_name) \notin DOMAIN _events_by_char_cache'.data)) =>
       /\ [found |-> m_call'.found, name |-> m_call'.name, options |-> m_call'.options]
            = IF TooShort(m_call'.event_line) THEN NoMatch
              ELSE match_in(load_events("trainee", folder), m_call'.event_line,
                            m_call'.confidence)
       /\ ~folder.trainee.ok => ~m_call'.found]_vars

C20_Witness ==
  /\ TraineeCall
  /\ m_call.character_name = NameX
  /\ DOMAIN IndexUsed # {}
  /\ m_call.found
  /\ m_call.options = <<"trainee", m_call.name>>

\* the call of this step reads the global file of its category, which an
\* earlier call has read before
ReadsGlobalAgain ==
  /\ CallStep
  /\ ReadsGlobal(m_call'.event_line, m_call'.category, m_call'.character_name,
                 _events_by_char_cache'.data)
  /\ first_load[m_call'.category].set

\* C21: once the per-character index is cached it never changes, and a call
\* that needs a category's global map after an earlier call has loaded it
\* returns what matching against the map of the first load returns, whatever
\* the files hold by then.
C21_SourcesLoadedOnce ==
  [][/\ _events_by_char_cache.set => _events_by_char_cache' = _events_by_char_cache
     /\ ReadsGlobalAgain =>
          [found |-> m_call'.found, name |-> m_call'.name, options |-> m_call'.options]
            = match_in(first_load[m_call'.category].data, m_call'.event_line,
                       m_call'.confidence)]_vars

\* ------------------------------------------- claims on the tick's outcome
\* a step in which the label prompt of the running tick returns no name
PromptEndsUnnamed == pc = "waiting" /\ pc' = "idle" /\ tick'.selected = None

\* C22: when the label prompt returns no name, find_best_match is called with
\* no character, so that its candidates are the global trainee map whatever
\* the index holds, and the step changes neither the hit counter, the miss
\* counter, the candidate nor the template cache.
C22_UnnamedPromptLeavesGate ==
  [][PromptEndsUnnamed =>
       /\ tick'.called
       /\ tick'.detected_char = None
       /\ \A dir \in FolderStates, by_char \in {IndexNew, IndexLegacy, EmptyMap} :
            candidates_map("trainee", tick'.detected_char, by_char, dir)
              = load_events("trainee", dir)
       /\ UNCHANGED <<_candidate_hits, _consecutive_misses, _current_candidate,
                      portrait_templates, disk>>]_vars

C22_Witness ==
  /\ pc = "idle"
  /\ tick.prompted /\ tick.called
  /\ tick.selected = None /\ tick.detected_char = None
  /\ _consecutive_misses >= PORTRAIT_REQUIRE_MISSES
  /\ _current_candidate # None

\* C23: a tick that reads fewer than two non-empty lines emits hide_all once
\* and returns: the identifier is not run, find_best_match is not called, and
\* the candidate, both counters, the last key and the last prompt time, as
\* well as the template cache, are what they were before the tick.
C23_FewLinesOnlyHide ==
  [][(tick' # tick /\ tick'.kind = "few") =>
       /\ tick'.signals = <<"hide_all">>
       /\ tick'.ident = "none" /\ ~tick'.prompted
       /\ ~tick'.called
       /\ UNCHANGED <<gate, store, hist, pc>>]_vars

C23_Witness ==
  /\ tick.kind = "few"
  /\ tick.signals = <<"hide_all">>
  /\ _current_candidate # None
  /\ _consecutive_misses > 0
  /\ _last_key # << >>

\* --------------------------------------- claims on the tick's output path
Elements(seq) == {seq[i] : i \in 1..Len(seq)}

\* the tick of this state has run and emitted the overlay
Shown == emitted # << >> /\ Len(emitted.signals) = 3

\* the skills of parsed_skills whose name is, in any case of letters, part
\* of an option label or of an effect text of the event
InOptions(skills, event_options) ==
  {k \in Elements(skills) :
     \E i \in 1..Len(event_options) :
        \/ Contains(Lower(event_options[i][1]), Lower(k))
        \/ Contains(Lower(event_options[i][2]), Lower(k))}

\* C24: when the overlay is shown, the skills sent with update_skills are
\* the known skills whose name occurs, in any case of letters, in an option
\* or effect string of the resolved event, and no other skill.
C24_SkillsFromOptionsOnly ==
  Shown => Elements(emitted.signals[3][2]) = InOptions(scan.parsed_skills, emitted.res.options)

\* C29: a tick that returns has emitted hide_all alone, or set_overlay,
\* show_overlay and update_skills in this order, and the three only when
\* find_best_match returned a name with an options map that is not empty.
C29_HideOrShowNeverBoth ==
  emitted # << >> =>
    LET names == [i \in 1..Len(emitted.signals) |-> emitted.signals[i][1]]
    IN /\ names \in {<<"hide_all">>, <<"set_overlay", "show_overlay", "update_skills">>}
       /\ names # <<"hide_all">> =>
            /\ emitted.matched
            /\ emitted.res.found /\ emitted.res.name # None
            /\ emitted.res.options # << >>
            /\ emitted.signals[1][2][1] = emitted.res.name

C29_Witness ==
  /\ Shown
  /\ scan.lines = <<HdrSupport, LineWalk>>
  /\ emitted.signals[1][2] =
       <<LineWalk, Txt.top \o <<":", " ">> \o <<"d", "a", "s", "h", " ", "+", "1">>,
         <<"S", "t", "e", "p">> >>
  /\ scan.parsed_skills = <<Txt.step, Txt.energy, Txt.dash>>
  /\ emitted.signals[3][2] = <<Txt.dash, Txt.step>>

\* a run of 4 space-like characters of s starts at i
RunAt(s, i) == i + 3 <= Len(s) /\ \A j \in i..(i + 3) : s[j] \in SpaceLike

\* where the first such run starts, Len(s) + 1 if there is none
FirstRun(s) ==
  LET at == {i \in 1..Len(s) : RunAt(s, i)}
  IN IF at = {} THEN Len(s) + 1 ELSE CHOOSE i \in at : \A k \in at : i <= k

\* out is p without the space-like characters at its end
RightStripped(p, out) ==
  \E m \in 0..Len(p) :
     /\ out = SubSeq(p, 1, m)
     /\ m > 0 => p[m] \notin SpaceLike
     /\ \A j \in (m + 1)..Len(p) : p[j] \in SpaceLike

\* what is said of the trimmed form out of a line
TrimmedForm(line, out) ==
  /\ RightStripped(SubSeq(line, 1, FirstRun(line) - 1), out)
  /\ \A i \in 1..Len(out) : ~RunAt(out, i)
  /\ trim_after_big_gap(out, 4) = out

\* what can follow the first four characters of a gap
Tails == UNION {[1..n -> {"a", " ", "ZWSP"}] : n \in 0..2}

\* every raw line that is the raw line of this tick up to four characters
\* into its first gap, and anything after, gives the tick's event key and
\* counts as one more miss on it
SameKeyUpToGap(raw) ==
  FirstRun(raw) <= Len(raw) =>
    \A tail \in Tails :
       LET other == SubSeq(raw, 1, FirstRun(raw) + 3) \o tail
           key == EventKey(trim_after_big_gap(other, 4))
       IN /\ key = emitted.event_key
          /\ MissCount(key, emitted.event_key, 1) = 2

\* the tick of this state was a trainee tick that got to the event line
Keyed == emitted # << >> /\ emitted.matched /\ emitted.event_key # None

\* C25 as stated: the line passed to find_best_match and used in the event
\* key is the raw line before its first run of 4 or more space-like
\* characters, right-stripped; it has no such run, trimming it again gives
\* itself, and raw lines that agree up to their first gap give the same key.
C25_KeyFromLineBeforeGap ==
  Keyed =>
    /\ emitted.event_key = TraineeKeyPrefix \o emitted.event_line
    /\ TrimmedForm(scan.lines[2], emitted.event_line)
    /\ SameKeyUpToGap(scan.lines[2])

\* C25 amended: the same of the raw line with its zero-width characters
\* (U+200B, U+FEFF) removed.
C25_KeyFromCleanLineBeforeGap ==
  Keyed =>
    /\ emitted.event_key = TraineeKeyPrefix \o emitted.event_line
    /\ TrimmedForm(Without(scan.lines[2], ZeroWidth), emitted.event_line)
    /\ SameKeyUpToGap(scan.lines[2])

C25_Witness ==
  /\ Keyed
  /\ scan.lines[2] = <<"a", " ", "ZWSP", " ", " ", " ", "a">>
  /\ emitted.event_line = <<"a">>

\* ------------------------------------------------ more claims on the gate
\* a step that is one whole tick in which the identifier named nothing
MissStep == pc = "idle" /\ clock' = clock /\ tick'.ident = "miss"

\* C26: a miss of a trainee tick whose header does not contain "trainee
\* event" leaves the candidate None, both counters 0 and the last key empty,
\* and emits no label request; and the miss counter is set to a value above 0
\* only by a miss of a tick whose header contains it.
C26_MissesCountOnTraineeEventOnly ==
  [][/\ (MissStep /\ ~Contains(Lower(tick'.header), StrTraineeEvent)) =>
          /\ _current_candidate' = None
          /\ _candidate_hits' = 0
          /\ _consecutive_misses' = 0
          /\ _last_key' = << >>
          /\ ~tick'.prompted /\ pc' = "idle"
          /\ UNCHANGED <<_last_prompt_time, lastReq>>
          /\ tick'.called
     /\ (_consecutive_misses' # _consecutive_misses /\ _consecutive_misses' > 0) =>
          /\ MissStep
          /\ Contains(Lower(tick'.header), StrTraineeEvent)]_vars

C26_Witness ==
  /\ pc = "idle" /\ tick.ident = "miss"
  /\ tick.header = HdrTrainee
  /\ _consecutive_misses = 0 /\ _last_key = << >>
  /\ prevId.res = "miss" /\ prevId.key = tick.event_key
  /\ clock - _last_prompt_time > PROMPT_COOLDOWN_SEC

\* C27: between ticks both counters are at least 0, the candidate is None
\* exactly when the hit counter is 0, and the miss counter is above 0 only
\* with a last event key that is not empty.
C27_GateStateConsistent ==
  pc = "idle" =>
    /\ _candidate_hits >= 0
    /\ _consecutive_misses >= 0
    /\ (_current_candidate = None) <=> (_candidate_hits = 0)
    /\ _consecutive_misses > 0 => _last_key # << >>

C27_Witness ==
  /\ pc = "idle" /\ tick.ident = "miss"
  /\ _current_candidate # None /\ _candidate_hits = MaxCount
  /\ _consecutive_misses = MaxCount
  /\ _last_key = tick.event_key

\* ---------------------------------------------- more claims on the dialog
\* the dialog of request r is accepted with a name in this step, after the
\* call that asked for it has timed out and returned None
LateAnswer(r) ==
  /\ reqs[r].returned /\ reqs[r].ret = None
  /\ reqs[r].st = "open"
  /\ reqs'[r].st = "closed" /\ reqs'[r].has /\ reqs'[r].name # None

\* C28: what a call of prompt_character_from_worker returned stays what it
\* returned; the worker reads the result of the request it waits for and of
\* no other; and the step that accepts a dialog whose call has timed out
\* changes neither what the worker holds as the selected name, nor where it
\* is, nor the gate state, nor the template cache.
C28_LateLabelDropped ==
  [][/\ \A r \in 1..Len(reqs) :
          /\ reqs[r].returned => (reqs'[r].returned /\ reqs'[r].ret = reqs[r].ret)
          /\ LateAnswer(r) =>
               UNCHANGED <<wsel, wpc, wreq, failure, gate, store, tick, hist>>
     /\ wreq # 0 => ~reqs[wreq].returned
     /\ wsel' # wsel => (wpc = "read" /\ wsel' = reqs'[wreq].ret) \/ wsel' = None]_vars

C28_Witness ==
  \E r \in 1..Len(reqs) :
     /\ reqs[r].returned /\ reqs[r].ret = None
     /\ reqs[r].st = "closed" /\ reqs[r].has /\ reqs[r].name # None
     /\ wsel = None
     /\ wpc = "match"

\* ------------------------------------------------ claims on the cooldown
\* C30: the step that emits a label request sets the last prompt time to the
\* time of the request, before the wait; no step, whatever the prompt returns
\* and whatever tick follows, moves the last prompt time back or clears it;
\* and while the worker waits, and after, the last prompt time is not before
\* the time of the last request.
C30_RequestStartsCooldown ==
  [][/\ RequestStep => (_last_prompt_time' = clock /\ lastReq' = clock)
     /\ _last_prompt_time' >= _last_prompt_time
     /\ pc = "waiting" => _last_prompt_time' = _last_prompt_time
     /\ lastReq' # -1 => _last_prompt_time' >= lastReq']_vars

C30_Witness ==
  /\ pc = "idle"
  /\ tick.kind = "support"
  /\ lastReq = EpochStart
  /\ _last_prompt_time = EpochStart
  /\ lastId.res = "miss"
  /\ clock > EpochStart

====
